---- MODULE Spec2Model ----
(***************************************************************************)
(* RoutedHttpRequestHandler (src/util/http/server): the route table built  *)
(* by the constructor and the dispatch performed by handle().              *)
(*                                                                         *)
(* Paths and patterns are JavaScript strings, modelled as sequences of     *)
(* one-character strings so that split('/'), slice(1), seg[0] === ':' and  *)
(* decodeURIComponent are computed the way the code computes them.         *)
(* Objects the code holds by reference (the caller's request objects) live *)
(* in a heap, `requests`; a context refers to its request by heap address. *)
(* An absent property of a JavaScript object is an absent field of the     *)
(* record that models it.                                                  *)
(***************************************************************************)
EXTENDS Integers, Sequences, FiniteSets, TLC

(***************************************************************************)
(* Bounds of the model.                                                    *)
(***************************************************************************)
\* Number of handle() invocations (each with its own slot) that may be in
\* flight, interleaved at their await points.
MaxDispatches == 2

(***************************************************************************)
(* JavaScript string and array primitives used by the code.                *)
(***************************************************************************)
\* String.prototype.split with a one-character separator: always at least
\* one piece.
RECURSIVE Split(_, _)
Split(s, sep) ==
  IF \E i \in 1..Len(s) : s[i] = sep
  THEN LET i == CHOOSE k \in 1..Len(s) :
                  s[k] = sep /\ \A j \in 1..(k - 1) : s[j] # sep
       IN  <<SubSeq(s, 1, i - 1)>> \o Split(SubSeq(s, i + 1, Len(s)), sep)
  ELSE <<s>>

\* Array.prototype.slice(1).
Slice1(a) == IF Len(a) = 0 THEN <<>> ELSE Tail(a)

\* Array.prototype.join(sep) on an array of strings.
RECURSIVE Join(_, _)
Join(a, sep) ==
  IF Len(a) = 0 THEN ""
  ELSE IF Len(a) = 1 THEN a[1]
  ELSE a[1] \o sep \o Join(Tail(a), sep)

\* Object spread / Object.assign: the properties of b override those of a.
Assign(a, b) ==
  [k \in (DOMAIN a) \cup (DOMAIN b) |-> IF k \in DOMAIN b THEN b[k] ELSE a[k]]

\* The printable ASCII characters, code 32 to 126 (the two quotes, the
\* backslash and the grave accent are written by name).
Printable ==
  << " ", "!", "<quot>", "#", "$", "%", "&", "<apos>", "(", ")", "*", "+", ",", "-",
     ".", "/", "0", "1", "2", "3", "4", "5", "6", "7", "8", "9", ":", ";",
     "<", "=", ">", "?", "@", "A", "B", "C", "D", "E", "F", "G", "H", "I",
     "J", "K", "L", "M", "N", "O", "P", "Q", "R", "S", "T", "U", "V", "W",
     "X", "Y", "Z", "[", "<bsl>", "]", "^", "_", "<grave>", "a", "b", "c", "d", "e",
     "f", "g", "h", "i", "j", "k", "l", "m", "n", "o", "p", "q", "r", "s",
     "t", "u", "v", "w", "x", "y", "z", "{", "|", "}", "~" >>

HexDigits ==
  << "0", "1", "2", "3", "4", "5", "6", "7", "8", "9",
     "A", "B", "C", "D", "E", "F", "a", "b", "c", "d", "e", "f" >>

IsHex(c) == \E i \in 1..Len(HexDigits) : HexDigits[i] = c

HexVal(c) ==
  LET i == CHOOSE k \in 1..Len(HexDigits) : HexDigits[k] = c
  IN  IF i <= 16 THEN i - 1 ELSE i - 7

\* The character of a byte below 0x80 (a control character is kept as one
\* opaque character).
AsciiChar(b) == IF b \in 32..126 THEN Printable[b - 31] ELSE "<ctl>"

\* The byte written %XY at position i of s, or -1 when no well-formed escape
\* starts there.
EscapeAt(s, i) ==
  IF i + 2 <= Len(s) /\ s[i] = "%" /\ IsHex(s[i + 1]) /\ IsHex(s[i + 2])
  THEN 16 * HexVal(s[i + 1]) + HexVal(s[i + 2])
  ELSE -1

\* Number of continuation bytes a UTF-8 lead byte announces (-1: not a lead).
Continuations(b) ==
  IF b \in 194..223 THEN 1
  ELSE IF b \in 224..239 THEN 2
  ELSE IF b \in 240..244 THEN 3
  ELSE -1

\* decodeURIComponent: every %XY escape is replaced by its character, other
\* characters are kept. A percent sign not followed by two hex digits, or escaped
\* bytes that are not a complete UTF-8 sequence, raise URIError (ok = FALSE).
\* A complete multi-byte sequence decodes to one non-ASCII character, kept
\* opaque.
RECURSIVE DecodeFrom(_, _, _)
DecodeFrom(s, i, acc) ==
  IF i > Len(s) THEN [ok |-> TRUE, value |-> acc]
  ELSE IF s[i] # "%" THEN DecodeFrom(s, i + 1, Append(acc, s[i]))
  ELSE LET b == EscapeAt(s, i)
           n == Continuations(b)
       IN  IF b = -1 THEN [ok |-> FALSE, value |-> <<>>]
           ELSE IF b < 128 THEN DecodeFrom(s, i + 3, Append(acc, AsciiChar(b)))
           ELSE IF n = -1 THEN [ok |-> FALSE, value |-> <<>>]
           ELSE IF \A k \in 1..n : EscapeAt(s, i + 3 * k) \in 128..191
                THEN DecodeFrom(s, i + 3 * (n + 1), Append(acc, "<utf8>"))
                ELSE [ok |-> FALSE, value |-> <<>>]

decodeURIComponent(s) == DecodeFrom(s, 1, <<>>)

(***************************************************************************)
(* The route table: a JavaScript Map, which iterates its keys in the order *)
(* of their first insertion. A sequence of <<key, value>> entries.         *)
(***************************************************************************)
MapHas(map, key) == \E i \in 1..Len(map) : map[i].key = key

\* Map.prototype.get; only used on a key the map has.
MapGet(map, key) ==
  map[CHOOSE i \in 1..Len(map) : map[i].key = key].value

\* Map.prototype.set: an existing key keeps its place, a new key goes last.
MapSet(map, key, value) ==
  IF MapHas(map, key)
  THEN [i \in 1..Len(map) |->
          IF map[i].key = key THEN [key |-> key, value |-> value] ELSE map[i]]
  ELSE Append(map, [key |-> key, value |-> value])

\* Array.from(map.keys()).
MapKeys(map) == [i \in 1..Len(map) |-> map[i].key]

\* The controllers and their routes are objects the table refers to, not
\* copies: a pair {controller, route} is the position of the controller in
\* the list and of the route among that controller's routes.
ControllerOf(list, pair) == list[pair.controller]

RouteOf(list, pair) == list[pair.controller].routes[pair.route]

\* Constructor, lines 36-40: the body of routes.forEach, for route r of
\* controller c.
RegisterRoute(map, list, c, r) ==
  LET route == list[c].routes[r]
  IN  IF MapHas(map, route.path)
      THEN MapSet(map, route.path,
                  Append(MapGet(map, route.path), [controller |-> c, route |-> r]))
      ELSE MapSet(map, route.path, <<[controller |-> c, route |-> r]>>)

\* Constructor, line 34: controller.routes.forEach, from route r on.
RECURSIVE RegisterRoutes(_, _, _, _)
RegisterRoutes(map, list, c, r) ==
  IF r > Len(list[c].routes) THEN map
  ELSE RegisterRoutes(RegisterRoute(map, list, c, r), list, c, r + 1)

\* Constructor, line 33: over the controllers in list order, from c on.
RECURSIVE RegisterControllers(_, _, _)
RegisterControllers(map, list, c) ==
  IF c > Len(list) THEN map
  ELSE RegisterControllers(RegisterRoutes(map, list, c, 1), list, c + 1)

\* Constructor, lines 31-42.
BuildPathToRouteMap(list) == RegisterControllers(<<>>, list, 1)

(***************************************************************************)
(* handle(): the synchronous computations.                                 *)
(***************************************************************************)
\* Line 56: path.split('#')[0].split('?')[0].split('/').slice(1).
PathSegments(path) ==
  Slice1(Split(Split(Split(path, "#")[1], "?")[1], "/"))

\* Lines 61-73: the predicate given to find.
RouteMatches(route, pathSegments) ==
  LET routeSegments == Slice1(Split(route, "/"))
  IN  /\ Len(routeSegments) = Len(pathSegments)
      /\ \A i \in 1..Len(routeSegments) :
            \/ routeSegments[i] = pathSegments[i]
            \/ (Len(routeSegments[i]) > 0 /\ routeSegments[i][1] = ":")

\* Variant of FindMatch (C8): findLast instead of find.
FindMatch_Last(keys, pathSegments) ==
  IF \E i \in 1..Len(keys) : RouteMatches(keys[i], pathSegments)
  THEN CHOOSE i \in 1..Len(keys) :
         /\ RouteMatches(keys[i], pathSegments)
         /\ \A j \in (i + 1)..Len(keys) : ~RouteMatches(keys[j], pathSegments)
  ELSE 0

\* Array.prototype.find on the keys: the index of the first key that
\* matches, 0 when find returns undefined.
FindMatch(keys, pathSegments) ==
  IF \E i \in 1..Len(keys) : RouteMatches(keys[i], pathSegments)
  THEN CHOOSE i \in 1..Len(keys) :
         /\ RouteMatches(keys[i], pathSegments)
         /\ \A j \in 1..(i - 1) : ~RouteMatches(keys[j], pathSegments)
  ELSE 0

\* Line 77: match ? this.pathToRouteMap.get(match) : undefined. The empty
\* string is falsy. undefined and the empty array take the same branch of
\* line 79 and are both the empty sequence here.
MatchingRoutes(map, matchIndex) ==
  IF matchIndex # 0 /\ Len(map[matchIndex].key) > 0
  THEN MapGet(map, map[matchIndex].key)
  ELSE <<>>

\* Line 82: r.route.operations.find(op => op.method === request.method),
\* as an index into the operations (0: undefined).
FindOperation(route, method) ==
  IF \E i \in 1..Len(route.operations) : route.operations[i].method = method
  THEN CHOOSE i \in 1..Len(route.operations) :
         /\ route.operations[i].method = method
         /\ \A j \in 1..(i - 1) : route.operations[j].method # method
  ELSE 0

\* Lines 81-83: the first pair whose route has an operation for the method,
\* as an index into matchingRoutes (0: undefined).
FindRouteWithOperation(list, matchingRoutes, method) ==
  IF \E i \in 1..Len(matchingRoutes) :
        FindOperation(RouteOf(list, matchingRoutes[i]), method) # 0
  THEN CHOOSE i \in 1..Len(matchingRoutes) :
         /\ FindOperation(RouteOf(list, matchingRoutes[i]), method) # 0
         /\ \A j \in 1..(i - 1) :
               FindOperation(RouteOf(list, matchingRoutes[j]), method) = 0
  ELSE 0

\* The methods of a route's operations, in order.
OperationMethods(route) ==
  [k \in 1..Len(route.operations) |-> route.operations[k].method]

\* Line 85: flatMap of every operation's method, from pair i on.
RECURSIVE AllowedMethodsFrom(_, _, _)
AllowedMethodsFrom(list, matchingRoutes, i) ==
  IF i > Len(matchingRoutes) THEN <<>>
  ELSE OperationMethods(RouteOf(list, matchingRoutes[i]))
       \o AllowedMethodsFrom(list, matchingRoutes, i + 1)

\* Variant of AllowedMethods (C2): only the methods of the first pair.
AllowedMethods_FirstPairOnly(list, matchingRoutes) ==
  IF Len(matchingRoutes) = 0 THEN <<>>
  ELSE OperationMethods(RouteOf(list, matchingRoutes[1]))

AllowedMethods(list, matchingRoutes) == AllowedMethodsFrom(list, matchingRoutes, 1)

\* Lines 144-153: forEach over the route segments from index i on; ok is
\* FALSE when decodeURIComponent throws.
RECURSIVE ExtractFrom(_, _, _, _)
ExtractFrom(routeSegments, pathSegments, i, parameters) ==
  IF i > Len(routeSegments) THEN [ok |-> TRUE, value |-> parameters]
  ELSE IF Len(routeSegments[i]) > 0 /\ routeSegments[i][1] = ":"
  THEN LET propName == Slice1(routeSegments[i])
           decoded  == decodeURIComponent(pathSegments[i])
       IN  IF decoded.ok
           THEN ExtractFrom(routeSegments, pathSegments, i + 1,
                            Assign(parameters, propName :> decoded.value))
           ELSE [ok |-> FALSE, value |-> <<>>]
  ELSE ExtractFrom(routeSegments, pathSegments, i + 1, parameters)

\* Variant of extractParameters (C6): the path segment is stored as it is,
\* without decodeURIComponent.
RECURSIVE ExtractRawFrom(_, _, _, _)
ExtractRawFrom(routeSegments, pathSegments, i, parameters) ==
  IF i > Len(routeSegments) THEN [ok |-> TRUE, value |-> parameters]
  ELSE IF Len(routeSegments[i]) > 0 /\ routeSegments[i][1] = ":"
  THEN ExtractRawFrom(routeSegments, pathSegments, i + 1,
                      Assign(parameters, Slice1(routeSegments[i]) :> pathSegments[i]))
  ELSE ExtractRawFrom(routeSegments, pathSegments, i + 1, parameters)

extractParameters_NoDecode(routeSegments, pathSegments) ==
  ExtractRawFrom(routeSegments, pathSegments, 1, <<>>)

\* Lines 140-157.
extractParameters(routeSegments, pathSegments) ==
  ExtractFrom(routeSegments, pathSegments, 1, <<>>)

\* Variant of RequestWithParams (C4): the request is replaced by an object
\* that holds the parameters only.
RequestWithParams_OnlyParameters(request, parameters) ==
  [parameters |-> parameters]

\* Line 107: Object.assign(request, { parameters }): the value the request
\* object holds afterwards.
RequestWithParams(request, parameters) ==
  Assign(request, [parameters |-> parameters])

\* Line 108: { ...context, request: requestWithParams, route }. The request
\* is the same object as before, so the same heap address; the route is the
\* route object of the table, so its position.
NewContext(context, requestRef, route) ==
  Assign(context, [request |-> requestRef, route |-> route])

\* Lines 91-97.
NoOperationResponse(method, allowedMethods) ==
  [status  |-> IF method = "OPTIONS" THEN 204 ELSE 405,
   headers |-> [allow |-> Join(allowedMethods, ", ")],
   body    |-> ""]

\* Variant of NotFoundResponse (C3): the status of the other fallback.
NotFoundResponse_MethodNotAllowed == [body |-> "", headers |-> <<>>, status |-> 405]

\* Line 135. The empty object is the function of empty domain.
NotFoundResponse == [body |-> "", headers |-> <<>>, status |-> 404]

\* Variant of MergedHeaders (C1): the handler's headers are spread last, so
\* they win over Allow and vary.
MergedHeaders_HandlerWins(res, method, allowedMethods, operation) ==
  LET own   == IF "headers" \in DOMAIN res THEN res.headers ELSE <<>>
      allow == IF method = "OPTIONS"
               THEN [Allow |-> Join(allowedMethods, ", ")] ELSE <<>>
      vary  == IF "vary" \in DOMAIN operation
               THEN [vary |-> Join(operation.vary, ", ")] ELSE <<>>
  IN  Assign(Assign(allow, vary), own)

\* Lines 116-122: the merged headers. Spreading an absent headers property
\* adds nothing.
MergedHeaders(res, method, allowedMethods, operation) ==
  LET own   == IF "headers" \in DOMAIN res THEN res.headers ELSE <<>>
      allow == IF method = "OPTIONS"
               THEN [Allow |-> Join(allowedMethods, ", ")] ELSE <<>>
      vary  == IF "vary" \in DOMAIN operation
               THEN [vary |-> Join(operation.vary, ", ")] ELSE <<>>
  IN  Assign(Assign(own, allow), vary)

\* Lines 114-123.
ShapeResponse(res, method, allowedMethods, operation) ==
  Assign(res,
         [headers |-> MergedHeaders(res, method, allowedMethods, operation)])

(***************************************************************************)
(* The inputs: controllers, constructor arguments, requests, and what the  *)
(* opaque handlers may answer.                                             *)
(***************************************************************************)
PatternAId == <<"/", "a", "/", ":", "i", "d">>
PatternKK  == <<"/", ":", "k", "/", ":", "k">>
PatternAB  == <<"/", "a", "/", "b">>

\* A controller with a pre-response handler. Its second route names the
\* same parameter twice.
ControllerA ==
  [preResponseHandler |-> "preA",
   routes |-> <<
     [path |-> PatternAId, handler |-> "h1",
      operations |-> <<[method |-> "GET", vary |-> <<"accept", "origin">>]>>],
     [path |-> PatternKK, handler |-> "h2",
      operations |-> <<[method |-> "OPTIONS", vary |-> <<"origin">>],
                       [method |-> "GET"]>>] >>]

\* A controller without pre-response handler. Its first route shares its
\* pattern with ControllerA's, its second one is a literal pattern that
\* "/a/:id" matches too.
ControllerB ==
  [routes |-> <<
     [path |-> PatternAId, handler |-> "h3",
      operations |-> <<[method |-> "GET"],
                       [method |-> "DELETE", vary |-> <<>>]>>],
     [path |-> PatternAB, handler |-> "h4",
      operations |-> <<[method |-> "OPTIONS"]>>] >>]

\* What the constructor may be given; an undefined argument is an absent
\* field.
ConstructorArguments ==
  { <<>>,
    [defaultHandler |-> "dflt"],
    [handlerControllerList |-> <<>>],
    [handlerControllerList |-> <<>>, defaultHandler |-> "dflt"],
    [handlerControllerList |-> <<ControllerA, ControllerB>>],
    [handlerControllerList |-> <<ControllerA, ControllerB>>,
     defaultHandler |-> "dflt"],
    [handlerControllerList |-> <<ControllerB, ControllerA>>] }

\* Request paths: url.pathname values, each starting with '/'.
Paths ==
  { <<"/", "a", "/", "x">>,
    <<"/", "a", "/", "b">>,
    <<"/", "b", "/", "%", "2", "F">>,
    <<"/", "a", "/", "%", "F">>,
    <<"/", "b", "/", "%", "F", "2">>,
    <<"/", "a", "/", "x", "?", "k", "/", "v", "#", "f", "/", "g">>,
    <<"/", "c">> }

Methods == {"GET", "OPTIONS", "DELETE"}

\* What a route handler or the default handler may resolve to: a response
\* without headers, and one whose headers already hold Allow and vary.
HandlerResponses ==
  { [status |-> 201, body |-> "created"],
    [status |-> 200, body |-> "ok",
     headers |-> [etag |-> "v1", Allow |-> "handler", vary |-> "handler"]] }

\* What a pre-response handler may resolve to, given the context it got:
\* that context, or a context it has added to.
PreResponseResults(ctx) == { ctx, Assign(ctx, [preProcessed |-> TRUE]) }

\* The logging calls of handle(), by line: 58, 75, 89, 101, 106, 127, 133.
LogPoints ==
  { "debugFinding", "debugMatched", "infoNotSupported", "setVariable",
    "debugParameters", "infoDefault", "errorNoMatch" }

Slots == 1..MaxDispatches

(***************************************************************************)
(* State.                                                                  *)
(***************************************************************************)
VARIABLES
  phase,          \* "new", "ready" (constructed) or "failed" (constructor threw)
  arguments,      \* what the constructor was called with
  dispatcher,     \* the RoutedHttpRequestHandler object: its private fields
  loggerRoute,    \* last value given to this.logger.setVariable('route', .)
  requests,       \* heap of the callers' request objects, by address
  pc,             \* per handle() invocation: where it stands
  context,        \* the context argument of the invocation
  original,       \* the context and the request object as they were at the call
  matched,        \* matchingRouteWithOperation: positions of controller, route, operation
  allowedMethods, \* the local of line 85
  newContext,     \* the local of line 108
  preResponse,    \* the local of line 111
  response,       \* the local of line 112: what the invoked handler resolved to
  calls,          \* the handler invocations the dispatch made, in order
  result          \* what the promise returned by handle() settled to

vars ==
  << phase, arguments, dispatcher, loggerRoute, requests, pc, context, original,
     matched, allowedMethods, newContext, preResponse, response, calls, result >>

Init ==
  /\ phase = "new"
  /\ arguments = <<>>
  /\ dispatcher = <<>>
  /\ loggerRoute = <<>>
  /\ requests = <<>>
  /\ pc = [d \in Slots |-> "idle"]
  /\ context = [d \in Slots |-> <<>>]
  /\ original = [d \in Slots |-> <<>>]
  /\ matched = [d \in Slots |-> <<>>]
  /\ allowedMethods = [d \in Slots |-> <<>>]
  /\ newContext = [d \in Slots |-> <<>>]
  /\ preResponse = [d \in Slots |-> <<>>]
  /\ response = [d \in Slots |-> <<>>]
  /\ calls = [d \in Slots |-> <<>>]
  /\ result = [d \in Slots |-> <<>>]

(***************************************************************************)
(* The constructor, lines 23-44.                                           *)
(***************************************************************************)
\* Variant of ListIsFalsy (C5): the empty list is refused too.
ListIsFalsy_OrEmpty(args) ==
  \/ "handlerControllerList" \notin DOMAIN args
  \/ Len(args.handlerControllerList) = 0

\* Line 25: !handlerControllerList. An array, empty or not, is truthy.
ListIsFalsy(args) == "handlerControllerList" \notin DOMAIN args

Construct(args) ==
  /\ phase = "new"
  /\ arguments' = args
  /\ IF ListIsFalsy(args)
     THEN /\ phase' = "failed"
          /\ dispatcher' = dispatcher
     ELSE /\ phase' = "ready"
          /\ dispatcher' =
               Assign(args, [pathToRouteMap |->
                               BuildPathToRouteMap(args.handlerControllerList)])
  /\ UNCHANGED << loggerRoute, requests, pc, context, original, matched,
                  allowedMethods, newContext, preResponse, response, calls,
                  result >>

(***************************************************************************)
(* handle(), lines 51-138, up to its first await (or to its return when it *)
(* awaits nothing). JavaScript runs this part without interruption.        *)
(***************************************************************************)
\* A handler invocation: which handler, with which context, and what the
\* request object of that context held at that moment.
Call(kind, handler, ctx, heap) ==
  [kind |-> kind, handler |-> handler, context |-> ctx,
   request |-> heap[ctx.request]]

\* The invocation ends here with an exception.
Thrown(error) == [error |-> error]

\* The invocation ends here with a response.
Returned(res) == [response |-> res]

\* The effects of the synchronous part of handle(ctx) on a heap `heap`:
\*   pc, result       where the invocation stands afterwards
\*   heap, logged     the request objects and the logger's route variable
\*   matched, allowedMethods, newContext, calls   the locals and invocations
\* failAt names the logging call that throws, if any ("none": every logging
\* call returns).
HandleOutcome(this, heap, logged, ctx, failAt) ==
  LET request        == heap[ctx.request]
      path           == request.url.pathname
      pathSegments   == PathSegments(path)
      list           == this.handlerControllerList
      map            == this.pathToRouteMap
      match          == FindMatch(MapKeys(map), pathSegments)
      matchingRoutes == MatchingRoutes(map, match)
      withOperation  ==
        FindRouteWithOperation(list, matchingRoutes, request.method)
      allowed        == AllowedMethods(list, matchingRoutes)
      pair           == matchingRoutes[withOperation]
      route          == RouteOf(list, pair)
      controller     == ControllerOf(list, pair)
      operation      == FindOperation(route, request.method)
      paramNames     == Slice1(Split(route.path, "/"))
      extracted      == extractParameters(paramNames, pathSegments)
      heapAssigned   ==
        [heap EXCEPT ![ctx.request] = RequestWithParams(request, extracted.value)]
      derived        == NewContext(ctx, ctx.request, pair)
      nothing        ==
        [pc |-> "done", result |-> <<>>, heap |-> heap, logged |-> logged,
         matched |-> <<>>, allowedMethods |-> <<>>, newContext |-> <<>>,
         calls |-> <<>>]
      found          ==
        [nothing EXCEPT
           !.matched = [controller |-> pair.controller, route |-> pair.route,
                        operation |-> operation],
           !.allowedMethods = allowed,
           !.logged = route.path]
  IN
  IF failAt \in {"debugFinding", "debugMatched"}
  THEN [nothing EXCEPT !.result = Thrown("LoggerError")]
  ELSE IF Len(matchingRoutes) > 0
  THEN IF withOperation = 0
       THEN IF failAt = "infoNotSupported"
            THEN [nothing EXCEPT !.result = Thrown("LoggerError")]
            ELSE [nothing EXCEPT
                    !.allowedMethods = allowed,
                    !.result = Returned(NoOperationResponse(request.method, allowed))]
       ELSE IF failAt = "setVariable"
       THEN [nothing EXCEPT !.result = Thrown("LoggerError")]
       ELSE IF ~extracted.ok
       THEN [found EXCEPT !.result = Thrown("URIError")]
       ELSE IF failAt = "debugParameters"
       THEN [found EXCEPT !.result = Thrown("LoggerError")]
       ELSE IF "preResponseHandler" \in DOMAIN controller
       THEN [found EXCEPT
               !.pc = "awaitPreResponse",
               !.heap = heapAssigned,
               !.newContext = derived,
               !.calls = <<Call("preResponse", controller.preResponseHandler,
                                derived, heapAssigned)>>]
       ELSE [found EXCEPT
               !.pc = "awaitHandler",
               !.heap = heapAssigned,
               !.newContext = derived,
               !.calls = <<Call("route", route.handler, derived,
                                heapAssigned)>>]
  ELSE IF "defaultHandler" \in DOMAIN this
  THEN IF failAt = "infoDefault"
       THEN [nothing EXCEPT !.result = Thrown("LoggerError")]
       ELSE [nothing EXCEPT
               !.pc = "awaitDefault",
               !.calls = <<Call("default", this.defaultHandler, ctx, heap)>>]
  ELSE IF failAt = "errorNoMatch"
       THEN [nothing EXCEPT !.result = Thrown("LoggerError")]
       ELSE [nothing EXCEPT !.result = Returned(NotFoundResponse)]

\* Variant of handle (C10): allowedMethods is kept in a field of the
\* dispatcher instead of a local, so every invocation sees the last one.
handle_SharedLocals(d, ctx, heap, failAt) ==
  /\ phase = "ready"
  /\ pc[d] = "idle"
  /\ \A e \in Slots : e < d => pc[e] # "idle"
  /\ \E out \in {HandleOutcome(dispatcher, heap, loggerRoute, ctx, failAt)} :
      /\ context' = [context EXCEPT ![d] = ctx]
      /\ original' = [original EXCEPT
                        ![d] = [context |-> ctx, request |-> heap[ctx.request]]]
      /\ requests' = out.heap
      /\ loggerRoute' = out.logged
      /\ pc' = [pc EXCEPT ![d] = out.pc]
      /\ result' = [result EXCEPT ![d] = out.result]
      /\ matched' = [matched EXCEPT ![d] = out.matched]
      /\ allowedMethods' = [e \in Slots |-> out.allowedMethods]
      /\ newContext' = [newContext EXCEPT ![d] = out.newContext]
      /\ calls' = [calls EXCEPT ![d] = out.calls]
      /\ UNCHANGED << phase, arguments, dispatcher, preResponse, response >>

\* handle(ctx) is called in slot d: its synchronous part runs on heap `heap`.
handle(d, ctx, heap, failAt) ==
  /\ phase = "ready"
  /\ pc[d] = "idle"
  /\ \A e \in Slots : e < d => pc[e] # "idle"
  /\ \E out \in {HandleOutcome(dispatcher, heap, loggerRoute, ctx, failAt)} :
      /\ context' = [context EXCEPT ![d] = ctx]
      /\ original' = [original EXCEPT
                        ![d] = [context |-> ctx, request |-> heap[ctx.request]]]
      /\ requests' = out.heap
      /\ loggerRoute' = out.logged
      /\ pc' = [pc EXCEPT ![d] = out.pc]
      /\ result' = [result EXCEPT ![d] = out.result]
      /\ matched' = [matched EXCEPT ![d] = out.matched]
      /\ allowedMethods' = [allowedMethods EXCEPT ![d] = out.allowedMethods]
      /\ newContext' = [newContext EXCEPT ![d] = out.newContext]
      /\ calls' = [calls EXCEPT ![d] = out.calls]
      /\ UNCHANGED << phase, arguments, dispatcher, preResponse, response >>

\* The request object at r has been handed to handle().
Dispatched(r) == \E d \in Slots : pc[d] # "idle" /\ context[d].request = r

\* The transport builds the request object of an incoming request. It does
\* so once the requests it built before have been handed to handle().
Receive(path, method) ==
  /\ phase = "ready"
  /\ Len(requests) < MaxDispatches
  /\ \E d \in Slots : pc[d] = "idle"
  /\ \A r \in DOMAIN requests : Dispatched(r)
  /\ requests' = Append(requests, [url |-> [pathname |-> path], method |-> method])
  /\ UNCHANGED << phase, arguments, dispatcher, loggerRoute, pc, context,
                  original, matched, allowedMethods, newContext, preResponse,
                  response, calls, result >>

\* handle() is called with a context whose request is the object at r: one
\* just built, or one that was dispatched before.
Handle(d, r) ==
  /\ r \in DOMAIN requests
  /\ \A q \in DOMAIN requests : q # r => Dispatched(q)
  /\ handle(d, [request |-> r], requests, "none")

\* As Handle, with a logger sink whose call `failAt` throws.
HandleLoggerThrows(d, r, failAt) ==
  /\ r \in DOMAIN requests
  /\ \A q \in DOMAIN requests : q # r => Dispatched(q)
  /\ failAt \in LogPoints
  /\ handle(d, [request |-> r], requests, failAt)

(***************************************************************************)
(* The continuations of handle() after its awaits.                         *)
(***************************************************************************)
\* matchingRouteWithOperation.route and .operation of the invocation in d.
MatchedRoute(d) == RouteOf(dispatcher.handlerControllerList, matched[d])

MatchedOperation(d) == MatchedRoute(d).operations[matched[d].operation]

\* Variant of PreResponseReturns (C9): the route's handler is given the
\* derived context instead of the one the pre-response handler resolved to.
PreResponseReturns_IgnoresResult(d, ctx) ==
  /\ pc[d] = "awaitPreResponse"
  /\ ctx \in PreResponseResults(newContext[d])
  /\ preResponse' = [preResponse EXCEPT ![d] = ctx]
  /\ calls' = [calls EXCEPT
                 ![d] = Append(@, Call("route", MatchedRoute(d).handler,
                                       newContext[d], requests))]
  /\ pc' = [pc EXCEPT ![d] = "awaitHandler"]
  /\ UNCHANGED << phase, arguments, dispatcher, loggerRoute, requests, context,
                  original, matched, allowedMethods, newContext, response,
                  result >>

\* Line 111 resumes with the context the pre-response handler resolved to;
\* line 112 invokes the route's handler with it.
PreResponseReturns(d, ctx) ==
  /\ pc[d] = "awaitPreResponse"
  /\ ctx \in PreResponseResults(newContext[d])
  /\ preResponse' = [preResponse EXCEPT ![d] = ctx]
  /\ calls' = [calls EXCEPT
                 ![d] = Append(@, Call("route", MatchedRoute(d).handler, ctx,
                                       requests))]
  /\ pc' = [pc EXCEPT ![d] = "awaitHandler"]
  /\ UNCHANGED << phase, arguments, dispatcher, loggerRoute, requests, context,
                  original, matched, allowedMethods, newContext, response,
                  result >>

\* Line 111: the pre-response handler rejects; nothing catches it.
PreResponseThrows(d) ==
  /\ pc[d] = "awaitPreResponse"
  /\ pc' = [pc EXCEPT ![d] = "done"]
  /\ result' = [result EXCEPT ![d] = Thrown("PreResponseError")]
  /\ UNCHANGED << phase, arguments, dispatcher, loggerRoute, requests, context,
                  original, matched, allowedMethods, newContext, preResponse,
                  response, calls >>

\* Lines 112-123: the route's handler resolves; the response is shaped.
HandlerReturns(d, resolved) ==
  /\ pc[d] = "awaitHandler"
  /\ resolved \in HandlerResponses
  /\ pc' = [pc EXCEPT ![d] = "done"]
  /\ response' = [response EXCEPT ![d] = resolved]
  /\ result' = [result EXCEPT
                  ![d] = Returned(ShapeResponse(resolved,
                                                requests[context[d].request].method,
                                                allowedMethods[d],
                                                MatchedOperation(d)))]
  /\ UNCHANGED << phase, arguments, dispatcher, loggerRoute, requests, context,
                  original, matched, allowedMethods, newContext, preResponse,
                  calls >>

\* Line 112: the route's handler rejects; nothing catches it.
HandlerThrows(d) ==
  /\ pc[d] = "awaitHandler"
  /\ pc' = [pc EXCEPT ![d] = "done"]
  /\ result' = [result EXCEPT ![d] = Thrown("HandlerError")]
  /\ UNCHANGED << phase, arguments, dispatcher, loggerRoute, requests, context,
                  original, matched, allowedMethods, newContext, preResponse,
                  response, calls >>

\* Line 129: the promise of the default handler is returned as it is.
DefaultReturns(d, resolved) ==
  /\ pc[d] = "awaitDefault"
  /\ resolved \in HandlerResponses
  /\ pc' = [pc EXCEPT ![d] = "done"]
  /\ response' = [response EXCEPT ![d] = resolved]
  /\ result' = [result EXCEPT ![d] = Returned(resolved)]
  /\ UNCHANGED << phase, arguments, dispatcher, loggerRoute, requests, context,
                  original, matched, allowedMethods, newContext, preResponse,
                  calls >>

DefaultThrows(d) ==
  /\ pc[d] = "awaitDefault"
  /\ pc' = [pc EXCEPT ![d] = "done"]
  /\ result' = [result EXCEPT ![d] = Thrown("DefaultHandlerError")]
  /\ UNCHANGED << phase, arguments, dispatcher, loggerRoute, requests, context,
                  original, matched, allowedMethods, newContext, preResponse,
                  response, calls >>

(***************************************************************************)
(* Specifications.                                                         *)
(***************************************************************************)
Next ==
  \/ \E args \in ConstructorArguments : Construct(args)
  \/ \E path \in Paths, method \in Methods : Receive(path, method)
  \/ \E d \in Slots, r \in DOMAIN requests : Handle(d, r)
  \/ \E d \in Slots : \E ctx \in PreResponseResults(newContext[d]) :
        PreResponseReturns(d, ctx)
  \/ \E d \in Slots : PreResponseThrows(d)
  \/ \E d \in Slots, resolved \in HandlerResponses : HandlerReturns(d, resolved)
  \/ \E d \in Slots : HandlerThrows(d)
  \/ \E d \in Slots, resolved \in HandlerResponses : DefaultReturns(d, resolved)
  \/ \E d \in Slots : DefaultThrows(d)

\* The dispatcher with a logger sink whose calls return.
Spec == Init /\ [][Next]_vars

\* The dispatcher with a logger sink whose calls may throw.
NextLog ==
  \/ Next
  \/ \E d \in Slots, r \in DOMAIN requests, failAt \in LogPoints :
        HandleLoggerThrows(d, r, failAt)

SpecLog == Init /\ [][NextLog]_vars

(***************************************************************************)
(* Vocabulary of the properties. The registrations are read from the       *)
(* controller list the dispatcher was given, not from the table built      *)
(* from it.                                                                *)
(***************************************************************************)
Started(d) == pc[d] # "idle"

Done(d) == pc[d] = "done"

\* The request as it was when handle() was called in slot d.
PathOf(d) == original[d].request.url.pathname

MethodOf(d) == original[d].request.method

List == dispatcher.handlerControllerList

\* Every (controller, route) of the list: controllers in list order, the
\* routes of a controller in declaration order.
RECURSIVE RegistrationsFrom(_, _)
RegistrationsFrom(list, c) ==
  IF c > Len(list) THEN <<>>
  ELSE [r \in 1..Len(list[c].routes) |-> [controller |-> c, route |-> r]]
       \o RegistrationsFrom(list, c + 1)

Registrations == RegistrationsFrom(List, 1)

PatternAt(i) == RouteOf(List, Registrations[i]).path

\* A pattern segment that is a placeholder.
Placeholder(seg) == Len(seg) > 0 /\ seg[1] = ":"

\* The path structurally matches the pattern: as many segments, and every
\* pattern segment equal to the path segment or a placeholder.
Structural(pattern, path) ==
  LET rs == Slice1(Split(pattern, "/"))
      ps == PathSegments(path)
  IN  Len(rs) = Len(ps) /\ \A i \in 1..Len(rs) : rs[i] = ps[i] \/ Placeholder(rs[i])

\* The registrations whose pattern the path matches.
MatchingRegistrations(path) ==
  { i \in 1..Len(Registrations) : Structural(PatternAt(i), path) }

HasMatch(path) == MatchingRegistrations(path) # {}

\* The pattern that was registered first among those the path matches.
FirstPattern(path) ==
  PatternAt(CHOOSE i \in MatchingRegistrations(path) :
              \A j \in MatchingRegistrations(path) : i <= j)

\* The registration declares an operation for the method.
Declares(i, method) ==
  \E k \in 1..Len(RouteOf(List, Registrations[i]).operations) :
     RouteOf(List, Registrations[i]).operations[k].method = method

\* The registrations under a pattern that declare the method.
Serving(pattern, method) ==
  { i \in 1..Len(Registrations) : PatternAt(i) = pattern /\ Declares(i, method) }

FirstServing(pattern, method) ==
  Registrations[CHOOSE i \in Serving(pattern, method) :
                  \A j \in Serving(pattern, method) : i <= j]

\* Every method declared under a pattern, registration after registration.
RECURSIVE MethodsUnderFrom(_, _)
MethodsUnderFrom(pattern, i) ==
  IF i > Len(Registrations) THEN <<>>
  ELSE (IF PatternAt(i) = pattern
        THEN OperationMethods(RouteOf(List, Registrations[i])) ELSE <<>>)
       \o MethodsUnderFrom(pattern, i + 1)

MethodsUnder(pattern) == MethodsUnderFrom(pattern, 1)

\* The first operation of a route for a method.
OperationFor(route, method) ==
  route.operations[CHOOSE k \in 1..Len(route.operations) :
                     /\ route.operations[k].method = method
                     /\ \A j \in 1..(k - 1) : route.operations[j].method # method]

\* The parameters a pattern yields on a path: one per placeholder name, its
\* value the decoded path segment at the last position of that name.
ExpectedParameters(pattern, path) ==
  LET rs    == Slice1(Split(pattern, "/"))
      ps    == PathSegments(path)
      names == { Slice1(rs[i]) : i \in { k \in 1..Len(rs) : Placeholder(rs[k]) } }
      last(n) == CHOOSE i \in 1..Len(rs) :
                   /\ Placeholder(rs[i]) /\ Slice1(rs[i]) = n
                   /\ \A j \in (i + 1)..Len(rs) :
                         ~(Placeholder(rs[j]) /\ Slice1(rs[j]) = n)
  IN  [n \in names |-> decodeURIComponent(ps[last(n)]).value]

\* Some placeholder of the pattern meets a malformed path segment.
Undecodable(pattern, path) ==
  LET rs == Slice1(Split(pattern, "/"))
      ps == PathSegments(path)
  IN  \E i \in 1..Len(rs) : Placeholder(rs[i]) /\ ~decodeURIComponent(ps[i]).ok

\* What handle() must return for the response `res` of the handler of
\* `route`: status and body of res, and its headers with Allow (OPTIONS) and
\* vary (the operation declares vary) put over them.
ExpectedResponse(res, route, method) ==
  LET op    == OperationFor(route, method)
      own   == IF "headers" \in DOMAIN res THEN res.headers ELSE <<>>
      names == (DOMAIN own)
               \cup (IF method = "OPTIONS" THEN {"Allow"} ELSE {})
               \cup (IF "vary" \in DOMAIN op THEN {"vary"} ELSE {})
  IN  [status  |-> res.status,
       body    |-> res.body,
       headers |-> [n \in names |->
                      IF n = "vary" /\ "vary" \in DOMAIN op
                        THEN Join(op.vary, ", ")
                      ELSE IF n = "Allow" /\ method = "OPTIONS"
                        THEN Join(MethodsUnder(route.path), ", ")
                      ELSE own[n]]]

\* handle() answered by itself: no handler was invoked.
Fallback(d) == "response" \in DOMAIN result[d] /\ calls[d] = <<>>

(***************************************************************************)
(* C1: a request matching a registered pattern with a declared method.     *)
(***************************************************************************)
\* C1, as claimed: for every registered pattern P and every method M that a
\* route under P declares, a response of handle() to a request whose path
\* structurally matches P and whose method is M is the shaped response of
\* the handler of a route under P, never a fallback, whatever other patterns
\* are registered.
C1_AnyMatchingPatternServes ==
  \A d \in Slots : \A i \in 1..(IF Started(d) THEN Len(Registrations) ELSE 0) :
    ( /\ "response" \in DOMAIN result[d]
      /\ Structural(PatternAt(i), PathOf(d))
      /\ Declares(i, MethodOf(d)) )
    => /\ ~Fallback(d)
       /\ MatchedRoute(d).path = PatternAt(i)

\* C1, amended: when the pattern registered first among those the path
\* matches has a route declaring the method, the request goes to the first
\* such route; handle() then fails only by a decoding or handler failure,
\* and a response it returns is that handler's response with status and
\* body unchanged and the headers merged with Allow (OPTIONS) and vary.
C1_FirstMatchingPatternServes ==
  \A d \in Slots :
    ( /\ Started(d)
      /\ HasMatch(PathOf(d))
      /\ Serving(FirstPattern(PathOf(d)), MethodOf(d)) # {} )
    => LET served == FirstServing(FirstPattern(PathOf(d)), MethodOf(d))
           route  == RouteOf(List, served)
       IN  /\ ~Fallback(d)
           /\ matched[d] # <<>>
           /\ matched[d].controller = served.controller
           /\ matched[d].route = served.route
           /\ "error" \in DOMAIN result[d]
                => result[d].error \in {"URIError", "PreResponseError", "HandlerError"}
           /\ "response" \in DOMAIN result[d]
                => /\ calls[d][Len(calls[d])].kind = "route"
                   /\ calls[d][Len(calls[d])].handler = route.handler
                   /\ result[d].response
                        = ExpectedResponse(response[d], route, MethodOf(d))

\* An OPTIONS request served by a route whose operation declares vary, the
\* handler's own Allow and vary headers replaced and its etag kept.
C1_Witness ==
  \E d \in Slots :
    /\ Done(d)
    /\ MethodOf(d) = "OPTIONS"
    /\ "response" \in DOMAIN result[d]
    /\ calls[d] # <<>>
    /\ result[d].response.status = 200
    /\ result[d].response.headers
         = [etag |-> "v1", Allow |-> "OPTIONS, GET", vary |-> "origin"]

(***************************************************************************)
(* C2: a request matching a pattern none of whose routes has the method.   *)
(***************************************************************************)
\* C2: when the path matches a registered pattern and no route stored under
\* the matched pattern declares the method, handle() invokes no handler and
\* returns 405 (204 for OPTIONS), an empty body and an allow header that is
\* the comma-joined list of every method declared under that pattern.
C2_MethodNotAllowed ==
  \A d \in Slots :
    ( /\ Started(d)
      /\ HasMatch(PathOf(d))
      /\ Serving(FirstPattern(PathOf(d)), MethodOf(d)) = {} )
    => /\ Done(d)
       /\ calls[d] = <<>>
       /\ result[d] =
            [response |->
               [status  |-> IF MethodOf(d) = "OPTIONS" THEN 204 ELSE 405,
                body    |-> "",
                headers |-> [allow |->
                               Join(MethodsUnder(FirstPattern(PathOf(d))), ", ")]]]

\* An OPTIONS request answered 204 with the methods of two controllers.
C2_Witness ==
  \E d \in Slots :
    /\ Done(d)
    /\ calls[d] = <<>>
    /\ MethodOf(d) = "OPTIONS"
    /\ "response" \in DOMAIN result[d]
    /\ result[d].response.status = 204
    /\ result[d].response.headers.allow = "GET, GET, DELETE"

(***************************************************************************)
(* C3: a request whose path matches no registered pattern.                 *)
(***************************************************************************)
\* C3: when the path matches no registered pattern, a configured default
\* handler is invoked exactly once, with the caller's context and its
\* unmodified request (no parameters, no route), and its response is
\* returned as it is; without default handler the response is exactly
\* {status: 404, body: '', headers: {}}. No other handler is invoked.
C3_NoMatch ==
  \A d \in Slots :
    (Started(d) /\ ~HasMatch(PathOf(d)))
    => IF "defaultHandler" \in DOMAIN dispatcher
       THEN /\ calls[d] = << [kind    |-> "default",
                              handler |-> dispatcher.defaultHandler,
                              context |-> original[d].context,
                              request |-> original[d].request] >>
            /\ "route" \notin DOMAIN calls[d][1].context
            /\ "parameters" \notin DOMAIN calls[d][1].request
            /\ IF Done(d)
               THEN \/ result[d] = [response |-> response[d]]
                    \/ result[d] = [error |-> "DefaultHandlerError"]
               ELSE pc[d] = "awaitDefault" /\ result[d] = <<>>
       ELSE /\ Done(d)
            /\ calls[d] = <<>>
            /\ result[d] = [response |-> [status |-> 404, body |-> "", headers |-> <<>>]]

\* The default handler answered a request that matches no pattern of a
\* non-empty table.
C3_Witness ==
  \E d \in Slots :
    /\ Done(d)
    /\ Len(List) > 0
    /\ ~HasMatch(PathOf(d))
    /\ Len(calls[d]) = 1
    /\ calls[d][1].kind = "default"
    /\ "response" \in DOMAIN result[d]
    /\ result[d].response = response[d]
    /\ "headers" \in DOMAIN response[d]

(***************************************************************************)
(* C4: what handle() does to its input.                                    *)
(***************************************************************************)
\* The request object of slot d, as it is now.
RequestNow(d) == requests[context[d].request]

\* handle() in slot d got to line 107.
Dispatching(d) == Started(d) /\ newContext[d] # <<>>

C5_EmptyOrUndefinedListRejected ==
  phase # "new"
  => ( phase = "failed"
       <=> \/ "handlerControllerList" \notin DOMAIN arguments
           \/ Len(arguments.handlerControllerList) = 0 )

\* C5, amended: construction fails exactly when the controller list is
\* undefined; with any list, the empty one included, it succeeds. The
\* dispatcher of an empty list has an empty route table and answers every
\* request with 404 or through the default handler.
C5_OnlyUndefinedListRejected ==
  /\ phase # "new"
       => (phase = "failed" <=> "handlerControllerList" \notin DOMAIN arguments)
  /\ phase = "failed"
       => dispatcher = <<>> /\ \A d \in Slots : ~Started(d)
  /\ phase = "ready"
       => /\ List = arguments.handlerControllerList
          /\ Len(List) = 0
               => /\ dispatcher.pathToRouteMap = <<>>
                  /\ \A d \in Slots :
                       Started(d)
                       => \/ result[d] = [response |-> NotFoundResponse]
                          \/ (calls[d] # <<>> /\ calls[d][1].kind = "default")

\* A dispatcher built from the empty list answered a request with 404.
C5_Witness ==
  /\ phase = "ready"
  /\ Len(List) = 0
  /\ \E d \in Slots : Done(d) /\ result[d] = [response |-> NotFoundResponse]

(***************************************************************************)
(* C6: the parameters handed to the handlers.                              *)
(***************************************************************************)
\* C6: when a request is dispatched to a route, every handler invoked sees
\* on the request exactly one parameter per placeholder name of the route's
\* pattern, its value the percent-decoded path segment at the (last)
\* position of that name; a malformed segment at a placeholder makes
\* handle() fail with the decoding error, no handler being invoked and the
\* request left without parameters.
C6_Parameters ==
  \A d \in Slots :
    (Started(d) /\ matched[d] # <<>>)
    => IF Undecodable(MatchedRoute(d).path, PathOf(d))
       THEN /\ Done(d)
            /\ result[d] = [error |-> "URIError"]
            /\ calls[d] = <<>>
            /\ RequestNow(d) = original[d].request
       ELSE /\ Len(calls[d]) >= 1
            /\ \A k \in 1..Len(calls[d]) :
                 /\ "parameters" \in DOMAIN calls[d][k].request
                 /\ calls[d][k].request.parameters
                      = ExpectedParameters(MatchedRoute(d).path, PathOf(d))
                 /\ requests[calls[d][k].context.request] = calls[d][k].request

\* One dispatch failed on a malformed segment; another handed its handler
\* the decoded value of the second of two placeholders of the same name.
C6_Witness ==
  \E d, e \in Slots :
    /\ Done(d)
    /\ result[d] = [error |-> "URIError"]
    /\ Len(calls[e]) >= 1
    /\ calls[e][Len(calls[e])].kind = "route"
    /\ calls[e][Len(calls[e])].request.parameters = (<<"k">> :> <<"/">>)

(***************************************************************************)
(* C7: a failing logger sink.                                              *)
(***************************************************************************)
\* C7: a logging call that fails never aborts a dispatch: no handle()
\* invocation ends with the logger's failure.
C7_LoggerFailureNeverAborts ==
  \A d \in Slots : Done(d) => result[d] # [error |-> "LoggerError"]

(***************************************************************************)
(* C8: selection follows registration order.                               *)
(***************************************************************************)
\* The patterns in the order of their first registration.
RECURSIVE PatternsInOrderFrom(_, _)
PatternsInOrderFrom(i, seen) ==
  IF i > Len(Registrations) THEN seen
  ELSE PatternsInOrderFrom(
         i + 1,
         IF \E k \in 1..Len(seen) : seen[k] = PatternAt(i)
         THEN seen ELSE Append(seen, PatternAt(i)))

\* C8: the table's keys are the distinct patterns in the order of their
\* first registration; the pattern selected for a request is the first of
\* them that the path matches, and the pair that serves the request is the
\* first one, in controller-list order and then route-declaration order,
\* that is stored under that pattern and declares the method.
C8_RegistrationOrder ==
  /\ phase = "ready"
       => MapKeys(dispatcher.pathToRouteMap) = PatternsInOrderFrom(1, <<>>)
  /\ \A d \in Slots :
       (Started(d) /\ HasMatch(PathOf(d)))
       => LET pattern == FirstPattern(PathOf(d))
          IN  IF Serving(pattern, MethodOf(d)) = {}
              THEN matched[d] = <<>> /\ Fallback(d)
              ELSE /\ matched[d] # <<>>
                   /\ MatchedRoute(d).path = pattern
                   /\ [controller |-> matched[d].controller,
                       route |-> matched[d].route]
                        = FirstServing(pattern, MethodOf(d))
                   /\ loggerRoute \in { PatternAt(i) : i \in 1..Len(Registrations) }

\* With ControllerB listed first, a request whose path matches three
\* patterns and whose method two controllers declare under the first of
\* them is served by ControllerB's route.
C8_Witness ==
  \E d \in Slots :
    /\ Started(d)
    /\ List = <<ControllerB, ControllerA>>
    /\ Cardinality({ PatternAt(i) : i \in MatchingRegistrations(PathOf(d)) }) = 3
    /\ Cardinality(Serving(FirstPattern(PathOf(d)), MethodOf(d))) = 2
    /\ matched[d] # <<>>
    /\ MatchedRoute(d).handler = "h3"

(***************************************************************************)
(* C9: the pre-response handler comes first.                               *)
(***************************************************************************)
\* C9: in a dispatch to a route whose controller has a pre-response
\* handler, that handler is invoked first, with the derived context, and
\* the route's handler is invoked only once it has returned, with exactly
\* the context it returned; if it fails the route's handler is never
\* invoked and handle() fails with its failure. Without pre-response
\* handler the route's handler gets the derived context. No handler is
\* invoked twice.
C9_PreResponseFirst ==
  \A d \in Slots :
    Dispatching(d)
    => LET controller == ControllerOf(List, matched[d])
           route      == MatchedRoute(d)
           first      == calls[d][1]
       IN  IF "preResponseHandler" \in DOMAIN controller
           THEN /\ Len(calls[d]) \in {1, 2}
                /\ first.kind = "preResponse"
                /\ first.handler = controller.preResponseHandler
                /\ first.context = newContext[d]
                /\ Len(calls[d]) = 2 <=> preResponse[d] # <<>>
                /\ Len(calls[d]) = 2
                     => /\ calls[d][2].kind = "route"
                        /\ calls[d][2].handler = route.handler
                        /\ calls[d][2].context = preResponse[d]
                        /\ preResponse[d] \in PreResponseResults(newContext[d])
                /\ pc[d] = "awaitPreResponse" => Len(calls[d]) = 1
                /\ pc[d] = "awaitHandler" => Len(calls[d]) = 2
                /\ Len(calls[d]) = 1 /\ Done(d)
                     => result[d] = [error |-> "PreResponseError"]
                /\ result[d] = [error |-> "PreResponseError"] => Len(calls[d]) = 1
           ELSE /\ Len(calls[d]) = 1
                /\ first.kind = "route"
                /\ first.handler = route.handler
                /\ first.context = newContext[d]
                /\ preResponse[d] = <<>>

\* A dispatch completed whose pre-response handler returned a context of
\* its own, which the route's handler received.
C9_Witness ==
  \E d \in Slots :
    /\ Done(d)
    /\ "response" \in DOMAIN result[d]
    /\ Len(calls[d]) = 2
    /\ calls[d][2].kind = "route"
    /\ calls[d][2].context # newContext[d]
    /\ calls[d][2].context = Assign(newContext[d], [preProcessed |-> TRUE])

(***************************************************************************)
(* C10: interleaved dispatches.                                            *)
(***************************************************************************)
\* Everything the invocation in slot d holds.
Frame(d) ==
  << pc[d], context[d], original[d], matched[d], allowedMethods[d], newContext[d],
     preResponse[d], response[d], calls[d], result[d] >>

====
